---- MODULE Spec2Model ----
(***************************************************************************)
(* The TPL-style pipeline package (pkg/pipeline): BufferBlock,             *)
(* TransformBlock and ActionBlock, their worker goroutines, the channels   *)
(* that link them and the retry loop, as a state machine.                  *)
(*                                                                         *)
(* A stage is identified by a number; its input channel carries the same   *)
(* number.  A worker goroutine is a pair (stage, worker index).  A Go      *)
(* panic that nothing recovers ends the process: it is recorded in crash   *)
(* and no step is taken afterwards.                                        *)
(***************************************************************************)
EXTENDS Integers, Sequences, FiniteSets, TLC

VARIABLES
    cfg,        \* per stage: kind, options and the behaviour of the user function
    input,      \* per stage: the contents of the input channel's buffer
    closeCount, \* per stage: how many close() calls were made on the input channel
    targets,    \* per stage: the registered links (b.targets)
    stopOnce,   \* per stage: the sync.Once of Complete has fired
    fault,      \* per stage: the recorded first fault (BaseBlock)
    completed,  \* per stage: the completion flag (BaseBlock)
    cancelled,  \* per stage: the cancellation context is done (BaseBlock.ctx)
    wg,         \* per stage: the wait group counter (BaseBlock.wg)
    wk,         \* per stage and worker: the goroutine's position and locals
    poster,     \* the producer goroutine inside Post
    nextMsg,    \* the next message the producer will post
    crash,      \* the unrecovered panic that ended the process, if any
    calls,      \* per stage and message: invocations of the user function
    fwd,        \* per stage and message: sends made to link channels for it
    ret,        \* what the last API call returned
    accepted,   \* the messages for which Post returned true
    sent,       \* per stage, link and value: sends made on that link
    out,        \* what the recording user functions appended, in order
    waits,      \* per stage and message: the backoff waits begun, in order
    call,       \* a function of the packages under evaluation: argument, result
    aborted     \* per stage and message: the invocations made when cancellation
                \* cut its backoff short (0: never)

vars == <<cfg, input, closeCount, targets, stopOnce, fault, completed, cancelled,
          wg, wk, poster, nextMsg, crash, calls, fwd, ret, accepted, sent, out,
          waits, call, aborted>>

----------------------------------------------------------------------------
(* Bounds of the model. *)

MaxMsgs == 2
MaxDegree == 2
MaxAttempts == 2
MaxLinks == 2
\* The largest attempt index handed to a backoff function.
MaxIndex == 66

\* Stage 1 is the head of the pipeline; stage 2 is the stage it is linked to.
Stages == {1, 2}
\* A channel made by the caller and handed to NewTarget: it belongs to no stage.
Shared == 3
SharedCap == 1
Chans == Stages \cup {Shared}
Kinds == {"buffer", "transform", "action"}
Msgs == 1..MaxMsgs
\* Values that travel on channels: the posted messages and transform results.
Vals == 1..(2 * MaxMsgs)
WorkerIds == 1..MaxDegree
LinkIds == 1..MaxLinks
\* A plan of Always: the user function fails on every attempt.
Always == MaxAttempts + 1
\* A plan of NilResult: the transform returns (nil, nil).
NilResult == 0 - 1
\* The plan of a message on which the user function panics.
PanicPlan == 0 - 2

\* Errors: nil, or the error the user function returned for message m.
NoErr == [kind |-> "nil", m |-> 0]
ErrOf(m) == [kind |-> "error", m |-> m]
\* fmt.Errorf("panic in ...: %v", r) for the panic raised on message m.
PanicErr(m) == [kind |-> "panic", m |-> m]
\* b.ctx.Err() of a cancelled context.
CtxErr == [kind |-> "context canceled", m |-> 0]
NoCrash == [kind |-> "none", by |-> "none"]
NoRet == [op |-> "none", s |-> 0, m |-> 0, ok |-> FALSE, late |-> FALSE,
          faulted |-> FALSE, err |-> NoErr]
NoCall == [fn |-> "none", arg |-> <<>>, res |-> <<>>, done |-> FALSE]
IdlePoster == [pc |-> "idle", s |-> 0, m |-> 0, late |-> FALSE, faulted |-> FALSE]
Parked == [pc |-> "recv", msg |-> 0, att |-> 0, res |-> 0, snap |-> <<>>, idx |-> 0]
Unused == [pc |-> "unused", msg |-> 0, att |-> 0, res |-> 0, snap |-> <<>>, idx |-> 0]

----------------------------------------------------------------------------
(* Options. *)

NoPolicy == [set |-> FALSE, MaxRetries |-> 0, Backoff |-> 0]
Policy(n, b) == [set |-> TRUE, MaxRetries |-> n, Backoff |-> b]

\* Defaults with a buffered input.
DefaultBuffered ==
    [RetryPolicy |-> NoPolicy, ConcurrencyDegree |-> 1, BufferSize |-> 1]

\* DefaultBlockOptions: no retry, one worker, unbuffered.
DefaultBlockOptions ==
    [RetryPolicy |-> NoPolicy, ConcurrencyDegree |-> 1, BufferSize |-> 0]

WithRetryPolicy(o, p) == [o EXCEPT !.RetryPolicy = p]
\* A degree option that stores whatever it is given.
WithConcurrencyDegreeAny(o, d) == [o EXCEPT !.ConcurrencyDegree = d]

WithConcurrencyDegree(o, d) == IF d > 0 THEN [o EXCEPT !.ConcurrencyDegree = d] ELSE o
\* A buffer size option that also puts the degree back to its default.
WithBufferSizeResets(o, n) ==
    IF n > 0 THEN [o EXCEPT !.BufferSize = n, !.ConcurrencyDegree = 1] ELSE o

WithBufferSize(o, n) == IF n > 0 THEN [o EXCEPT !.BufferSize = n] ELSE o

\* A stage as its constructor leaves it: kind, resolved options and the user
\* function, given as plan[m] = the number of leading attempts that fail on m.
\* A function that records appends its input to a shared slice (log); the
\* transform of a stage doubles its input unless it is the identity.
StageCfg(kind, opts, plan) ==
    [kind |-> kind, opts |-> opts, plan |-> plan, log |-> FALSE, identity |-> FALSE]
Recording(c) == [c EXCEPT !.log = TRUE]
\* A transform whose function returns its input.
Identity(c) == [c EXCEPT !.identity = TRUE]

Workers(s) == 1..cfg[s].opts.ConcurrencyDegree
Cap(s) == IF s = Shared THEN SharedCap ELSE cfg[s].opts.BufferSize

----------------------------------------------------------------------------
(* BaseBlock: completion flag, first fault, wait group. *)

\* IsCompleted: the stage has signalled completion or holds a fault.
IsCompleted(s) == completed[s] \/ fault[s] # NoErr

\* A Fault that keeps the latest error.
FaultValueLatest(old, err) == err

\* Fault: only the first error is kept.
FaultValue(old, err) == IF old = NoErr THEN err ELSE old

----------------------------------------------------------------------------
(* Channels.  A channel of capacity 0 hands a value to a parked receiver. *)

Closed(ch) == closeCount[ch] > 0

ParkedWorkers(ch, w0) == {w \in Workers(ch) : w0[ch][w].pc = "recv"}

\* The worker's locals once it holds message v.
Holding(v) == [Parked EXCEPT !.pc = "exec", !.msg = v]

\* A send that waits for room instead of failing.
CanSendWaits(ch, w0) == TRUE

\* A send can proceed: room in the buffer, or a receiver waiting.
CanSend(ch, w0) ==
    IF Cap(ch) > 0 THEN Len(input[ch]) < Cap(ch) ELSE ParkedWorkers(ch, w0) # {}

\* A channel whose buffer hands out the newest value first.
DeliverNewestFirst(ch, v, w0) ==
    IF Cap(ch) > 0
    THEN IF Len(input[ch]) < Cap(ch)
         THEN {<<w0, [input EXCEPT ![ch] = <<v>> \o @]>>}
         ELSE {}
    ELSE {<<[w0 EXCEPT ![ch][w] = Holding(v)], input>> : w \in ParkedWorkers(ch, w0)}

\* The outcomes <<wk, input>> of sending v on the open channel ch, the workers
\* being w0 before the send.
Deliver(ch, v, w0) ==
    IF Cap(ch) > 0
    THEN IF Len(input[ch]) < Cap(ch)
         THEN {<<w0, [input EXCEPT ![ch] = Append(@, v)]>>}
         ELSE {}
    ELSE {<<[w0 EXCEPT ![ch][w] = Holding(v)], input>> : w \in ParkedWorkers(ch, w0)}

\* close(t.ch) for each target in order; a close of a closed channel panics
\* and ends the loop.  Gives <<closeCount, panicked>>.
RECURSIVE CloseTargets(_, _)
CloseTargets(ts, cc) ==
    IF ts = <<>> THEN <<cc, FALSE>>
    ELSE LET ch == Head(ts).ch
             cc1 == [cc EXCEPT ![ch] = @ + 1]
         IN IF cc[ch] > 0 THEN <<cc1, TRUE>> ELSE CloseTargets(Tail(ts), cc1)

----------------------------------------------------------------------------
(* Links. *)

\* NewTarget(ch) and SetFilter: a target with no filter accepts every value.
NewTarget(ch) == [ch |-> ch, hasFilter |-> FALSE, pass |-> {}]
SetFilter(t, pass) == [t EXCEPT !.hasFilter = TRUE, !.pass = pass]

\* target.filter == nil || target.filter(v)
Accepts(t, v) == ~t.hasFilter \/ v \in t.pass

\* LinkTo(source, target, nil): the target's channel is the target stage's input.
LinkTargets(ts, d) == Append(ts, NewTarget(d))

\* A filter argument: nil, or a predicate given as the set of values it passes.
NilFilter == [set |-> FALSE, pass |-> {}]
Filter(P) == [set |-> TRUE, pass |-> P]

\* b.LinkTo(target, filter): append the target; set its filter when one is given.
BlockLinkTo(ts, t, f) == Append(ts, IF f.set THEN SetFilter(t, f.pass) ELSE t)

\* LinkTo(source, target, filter) for each filter of fs in turn, every link
\* leading to stage d.
RECURSIVE LinkAll(_, _, _)
LinkAll(ts, d, fs) ==
    IF fs = <<>> THEN ts
    ELSE LinkAll(BlockLinkTo(ts, NewTarget(d), Head(fs)), d, Tail(fs))

----------------------------------------------------------------------------
(* The user functions. *)

\* The transform used by the tests: a value distinct from every posted message.
TransformResult(m) == m + MaxMsgs

\* Every stage handing on what a transform would.
EmittedResult(s, m) == TransformResult(m)

\* What a successful invocation hands to the links: the transform's result, or
\* the original message for an action or a buffer.
Emitted(s, m) ==
    IF cfg[s].kind = "transform" /\ ~cfg[s].identity THEN TransformResult(m) ELSE m

\* Attempt a (0-based) of the stage's function on m fails.
Fails(s, m, a) == a < cfg[s].plan[m]

\* The user function panics on m.
Panics(s, m) == cfg[s].plan[m] = PanicPlan

\* A worker that never finds a nil result.
ReturnsNilIgnored(s, m) == FALSE

\* The transform's successful result for m is nil.
ReturnsNil(s, m) == cfg[s].kind = "transform" /\ cfg[s].plan[m] = NilResult

----------------------------------------------------------------------------
(* Post: the completed check, then a non-blocking send. *)

\* Post without its completed check.
PostSkipsCheck(s) == FALSE

\* if b.IsCompleted() { return false }
PostRejects(s) == IsCompleted(s)

PostReturn(s, m, ok, late, faulted) ==
    [NoRet EXCEPT !.op = "Post", !.s = s, !.m = m, !.ok = ok, !.late = late,
                  !.faulted = faulted]

PostCheck(s) ==
    /\ crash = NoCrash
    /\ UNCHANGED <<waits, call, aborted>>
    /\ poster.pc = "idle"
    /\ nextMsg <= MaxMsgs
    /\ nextMsg' = nextMsg + 1
    /\ IF PostRejects(s)
       THEN /\ ret' = PostReturn(s, nextMsg, FALSE, stopOnce[s], fault[s] # NoErr)
            /\ UNCHANGED poster
       ELSE /\ poster' = [pc |-> "send", s |-> s, m |-> nextMsg,
                          late |-> stopOnce[s], faulted |-> fault[s] # NoErr]
            /\ UNCHANGED ret
    /\ UNCHANGED <<accepted, sent, out>>
    /\ UNCHANGED <<cfg, input, closeCount, targets, stopOnce, fault, completed,
                   cancelled, wg, wk, crash, calls, fwd>>

\* select { case b.input <- message: return true; default: return false }
PostSend ==
    /\ crash = NoCrash
    /\ UNCHANGED <<waits, call, aborted>>
    /\ poster.pc = "send"
    /\ LET s == poster.s
       IN IF Closed(s)
          THEN /\ crash' = [kind |-> "send on closed channel", by |-> "Post"]
               /\ UNCHANGED <<wk, input, ret, poster, accepted>>
          ELSE /\ UNCHANGED crash
               /\ poster' = IdlePoster
               /\ IF CanSend(s, wk)
                  THEN /\ \E o \in Deliver(s, poster.m, wk) :
                            wk' = o[1] /\ input' = o[2]
                       /\ ret' = PostReturn(s, poster.m, TRUE, poster.late,
                                            poster.faulted)
                       /\ accepted' = accepted \cup {poster.m}
                  ELSE /\ UNCHANGED <<wk, input, accepted>>
                       /\ ret' = PostReturn(s, poster.m, FALSE, poster.late,
                                            poster.faulted)
    /\ UNCHANGED <<sent, out>>
    /\ UNCHANGED <<cfg, closeCount, targets, stopOnce, fault, completed, cancelled,
                   wg, nextMsg, calls, fwd>>

----------------------------------------------------------------------------
(* Complete: b.stopOnce.Do(func() { close(b.input) }) *)

\* The once has not fired: this call runs the function.
OnceRuns(s) == ~stopOnce[s]

Complete(s) ==
    /\ crash = NoCrash
    /\ UNCHANGED <<waits, call, aborted>>
    /\ ret' = [NoRet EXCEPT !.op = "Complete", !.s = s, !.ok = OnceRuns(s)]
    /\ IF OnceRuns(s)
       THEN /\ stopOnce' = [stopOnce EXCEPT ![s] = TRUE]
            /\ closeCount' = [closeCount EXCEPT ![s] = @ + 1]
            /\ crash' = IF Closed(s)
                        THEN [kind |-> "close of closed channel", by |-> "Complete"]
                        ELSE crash
       ELSE UNCHANGED <<stopOnce, closeCount, crash>>
    /\ UNCHANGED <<accepted, sent, out>>
    /\ UNCHANGED <<cfg, input, targets, fault, completed, cancelled, wg, wk,
                   poster, nextMsg, calls, fwd>>

----------------------------------------------------------------------------
(* process: one worker goroutine. *)

\* A worker of any kind that goes straight to wg.Done() when it returns.
ExitPcNoClose(s) == "wgdone"

\* Where a returning worker goes: Buffer and Transform close their targets in
\* the deferred function; Action's deferred function only recovers.
ExitPc(s) == IF cfg[s].kind = "action" THEN "wgdone" ELSE "closing"

\* case msg, ok := <-b.input  (on a buffered or closed channel)
Recv(s, w) ==
    /\ crash = NoCrash
    /\ UNCHANGED <<waits, call, aborted>>
    /\ wk[s][w].pc = "recv"
    /\ IF Len(input[s]) > 0
       THEN /\ wk' = [wk EXCEPT ![s][w] = Holding(Head(input[s]))]
            /\ input' = [input EXCEPT ![s] = Tail(@)]
       ELSE /\ Closed(s)
            /\ wk' = [wk EXCEPT ![s][w] = [Parked EXCEPT !.pc = ExitPc(s)]]
            /\ UNCHANGED input
    /\ UNCHANGED <<accepted, sent, out>>
    /\ UNCHANGED <<cfg, closeCount, targets, stopOnce, fault, completed, cancelled,
                   wg, poster, nextMsg, crash, calls, fwd, ret>>

\* The copy of b.targets taken under the read lock, and the worker at the
\* start of the forwarding loop (back at the select when there is no target).
StartForward(s, loc, v) ==
    IF targets[s] = <<>>
    THEN Parked
    ELSE [loc EXCEPT !.pc = "fwd", !.res = v, !.snap = targets[s], !.idx = 1]

\* The wrapper entered whenever a policy is set, whatever its MaxRetries.
RetryingWheneverSet(s) == cfg[s].opts.RetryPolicy.set

\* The retry wrapper is used: a policy is set and allows more than one attempt.
Retrying(s) ==
    cfg[s].opts.RetryPolicy.set /\ cfg[s].opts.RetryPolicy.MaxRetries > 1

\* The loop breaking one attempt late.
LastAttemptLate(s, a) ==
    ~Retrying(s) \/ a = cfg[s].opts.RetryPolicy.MaxRetries

\* The loop breaking one attempt early.
LastAttemptEarly(s, a) ==
    ~Retrying(s) \/ a >= cfg[s].opts.RetryPolicy.MaxRetries - 2

\* The failed attempt a (0-based) was the last: no wrapper, or the loop breaks.
LastAttempt(s, a) ==
    ~Retrying(s) \/ a = cfg[s].opts.RetryPolicy.MaxRetries - 1

\* A backoff that does not grow with the attempt.
BackoffFlat(s, a) == cfg[s].opts.RetryPolicy.Backoff

\* backoff := time.Duration(attempt+1) * b.options.RetryPolicy.Backoff
BackoffFor(s, a) == (a + 1) * cfg[s].opts.RetryPolicy.Backoff

\* The worker after attempt a failed and another attempt remains.
AfterFailure(s, loc) ==
    [loc EXCEPT !.att = @ + 1,
                !.pc = IF cfg[s].opts.RetryPolicy.Backoff > 0
                       THEN "backoff" ELSE "exec"]

\* The worker returning from process after a fault.
AfterFaultExits(s, loc) == [Parked EXCEPT !.pc = ExitPc(s)]

\* if err != nil { b.Fault(err); continue }: the worker is back at its select.
AfterFault(s, loc) == Parked

\* The error dropped: `if err != nil { continue }`.
OnErrorSilent(s, old, m) == old

\* b.Fault(err) with the error the function returned for m.
OnError(s, old, m) == FaultValue(old, ErrOf(m))

\* The user function's side effect on the shared slice.
Logged(s, m) == IF cfg[s].log THEN Append(out, m) ELSE out

\* One invocation of the user function inside executeTransform/executeAction,
\* with what follows it up to the next blocking point.  A Buffer has no
\* function: it copies the targets and forwards.
Exec(s, w) ==
    /\ crash = NoCrash
    /\ UNCHANGED <<call, aborted>>
    /\ wk[s][w].pc = "exec"
    /\ LET loc == wk[s][w]
           m == loc.msg
       IN IF cfg[s].kind = "buffer"
          THEN /\ wk' = [wk EXCEPT ![s][w] = StartForward(s, loc, m)]
               /\ UNCHANGED <<calls, fault, out, waits>>
          ELSE /\ calls' = [calls EXCEPT ![s][m] = @ + 1]
               /\ out' = Logged(s, m)
               /\ IF Panics(s, m)
                  THEN \* the loop is left and the deferred functions run:
                       \* recover and Fault, then the exit path
                       /\ fault' = [fault EXCEPT ![s] = FaultValue(@, PanicErr(m))]
                       /\ wk' = [wk EXCEPT ![s][w] = [Parked EXCEPT !.pc = ExitPc(s)]]
                       /\ UNCHANGED waits
                  ELSE IF ~Fails(s, m, loc.att)
                  THEN /\ wk' = [wk EXCEPT ![s][w] =
                                    IF ReturnsNil(s, m) THEN Parked
                                    ELSE StartForward(s, loc, Emitted(s, m))]
                       /\ UNCHANGED <<fault, waits>>
                  ELSE IF LastAttempt(s, loc.att)
                  THEN /\ fault' = [fault EXCEPT ![s] = OnError(s, @, m)]
                       /\ wk' = [wk EXCEPT ![s][w] = AfterFault(s, loc)]
                       /\ UNCHANGED waits
                  ELSE /\ wk' = [wk EXCEPT ![s][w] = AfterFailure(s, loc)]
                       /\ waits' = [waits EXCEPT ![s][m] =
                                       IF cfg[s].opts.RetryPolicy.Backoff > 0
                                       THEN Append(@, BackoffFor(s, loc.att))
                                       ELSE @]
                       /\ UNCHANGED fault
    /\ UNCHANGED <<accepted, sent>>
    /\ UNCHANGED <<cfg, input, closeCount, targets, stopOnce, completed, cancelled,
                   wg, poster, nextMsg, crash, fwd, ret>>

\* case <-time.After(backoff): the wait before the next attempt ends.  Once
\* the context is done the waiting worker has been woken by ctx.Done().
BackoffDone(s, w) ==
    /\ crash = NoCrash
    /\ UNCHANGED <<waits, call, aborted>>
    /\ wk[s][w].pc = "backoff"
    /\ ~cancelled[s]
    /\ wk' = [wk EXCEPT ![s][w].pc = "exec"]
    /\ UNCHANGED <<accepted, sent, out>>
    /\ UNCHANGED <<cfg, input, closeCount, targets, stopOnce, fault, completed,
                   cancelled, wg, poster, nextMsg, crash, calls, fwd, ret>>

\* A forwarding loop that ends after its first target.
NextTargetNone(loc) == Parked

\* The worker after it is done with target idx of its copy.
NextTarget(loc) ==
    IF loc.idx = Len(loc.snap) THEN Parked ELSE [loc EXCEPT !.idx = @ + 1]

\* One round of the forwarding loop: the filter, then target.ch <- result.
Forward(s, w) ==
    /\ crash = NoCrash
    /\ UNCHANGED <<waits, call, aborted>>
    /\ wk[s][w].pc = "fwd"
    /\ LET loc == wk[s][w]
           t == loc.snap[loc.idx]
           w1 == [wk EXCEPT ![s][w] = NextTarget(loc)]
       IN IF ~Accepts(t, loc.res)
          THEN /\ wk' = w1
               /\ UNCHANGED <<input, crash, fwd, sent>>
          ELSE IF Closed(t.ch)
          THEN /\ crash' = [kind |-> "send on closed channel", by |-> "worker"]
               /\ UNCHANGED <<wk, input, fwd, sent>>
          ELSE /\ \E o \in Deliver(t.ch, loc.res, w1) : wk' = o[1] /\ input' = o[2]
               /\ fwd' = [fwd EXCEPT ![s][loc.msg] = @ + 1]
               /\ sent' = [sent EXCEPT ![s][loc.idx][loc.res] = @ + 1]
               /\ UNCHANGED crash
    /\ UNCHANGED <<accepted, out>>
    /\ UNCHANGED <<cfg, closeCount, targets, stopOnce, fault, completed, cancelled,
                   wg, poster, nextMsg, calls, ret>>

\* The deferred function of a Buffer or Transform worker: close every target
\* channel, then SignalCompletion.
CloseLinks(s) == CloseTargets(targets[s], closeCount)

Closing(s, w) ==
    /\ crash = NoCrash
    /\ UNCHANGED <<waits, call, aborted>>
    /\ wk[s][w].pc = "closing"
    /\ LET r == CloseLinks(s)
       IN /\ closeCount' = r[1]
          /\ IF r[2]
             THEN /\ crash' = [kind |-> "close of closed channel", by |-> "worker"]
                  /\ UNCHANGED <<wk, completed>>
             ELSE /\ wk' = [wk EXCEPT ![s][w].pc = "wgdone"]
                  /\ completed' = [completed EXCEPT ![s] = TRUE]
                  /\ UNCHANGED crash
    /\ UNCHANGED <<accepted, sent, out>>
    /\ UNCHANGED <<cfg, input, targets, stopOnce, fault, cancelled, wg, poster,
                   nextMsg, calls, fwd, ret>>

\* defer b.wg.Done()
WgDone(s, w) ==
    /\ crash = NoCrash
    /\ UNCHANGED <<waits, call, aborted>>
    /\ wk[s][w].pc = "wgdone"
    /\ wk' = [wk EXCEPT ![s][w].pc = "exited"]
    /\ wg' = [wg EXCEPT ![s] = @ - 1]
    /\ UNCHANGED <<accepted, sent, out>>
    /\ UNCHANGED <<cfg, input, closeCount, targets, stopOnce, fault, completed,
                   cancelled, poster, nextMsg, crash, calls, fwd, ret>>

----------------------------------------------------------------------------
(* Wait and WaitAll. *)

\* Wait returns once the wait group is at zero.
WaitReturns(s) == wg[s] = 0

\* The non-nil fault of the last stage that has one.
LastFault(ss) ==
    IF \A s \in ss : fault[s] = NoErr THEN NoErr
    ELSE fault[CHOOSE s \in ss : fault[s] # NoErr
                                 /\ \A r \in ss : r > s => fault[r] = NoErr]

\* The first non-nil fault in stage order.
FirstFault(ss) ==
    IF \A s \in ss : fault[s] = NoErr THEN NoErr
    ELSE fault[CHOOSE s \in ss : fault[s] # NoErr
                                 /\ \A r \in ss : r < s => fault[r] = NoErr]

\* s.Wait(): blocks until the stage's workers have exited, then returns the
\* recorded fault.
Wait(s) ==
    /\ crash = NoCrash
    /\ UNCHANGED <<waits, call, aborted>>
    /\ WaitReturns(s)
    /\ ret' = [NoRet EXCEPT !.op = "Wait", !.s = s, !.ok = TRUE, !.err = fault[s]]
    /\ UNCHANGED <<cfg, input, closeCount, targets, stopOnce, fault, completed,
                   cancelled, wg, wk, poster, nextMsg, crash, calls, fwd,
                   accepted, sent, out>>

WaitAll ==
    /\ crash = NoCrash
    /\ UNCHANGED <<waits, call, aborted>>
    /\ \A s \in Stages : WaitReturns(s)
    /\ ret' = [NoRet EXCEPT !.op = "WaitAll", !.ok = TRUE, !.err = FirstFault(Stages)]
    /\ UNCHANGED <<accepted, sent, out>>
    /\ UNCHANGED <<cfg, input, closeCount, targets, stopOnce, fault, completed,
                   cancelled, wg, wk, poster, nextMsg, crash, calls, fwd>>

----------------------------------------------------------------------------
(* Construction. *)

\* A constructor that starts a goroutine for every worker index there is.
NewWorkersMost(c) == [w \in WorkerIds |-> Parked]

\* NewXBlock(opts...): wg.Add(degree) and one goroutine per worker, each of
\* which reaches its select.
NewWorkers(c) ==
    [w \in WorkerIds |-> IF w <= c.opts.ConcurrencyDegree THEN Parked ELSE Unused]

\* Blocks built from the configurations c, stage s having the links tt[s].
BuiltLinked(c, tt) ==
    /\ cfg = c
    /\ input = [s \in Chans |-> <<>>]
    /\ closeCount = [s \in Chans |-> 0]
    /\ targets = tt
    /\ stopOnce = [s \in Stages |-> FALSE]
    /\ fault = [s \in Stages |-> NoErr]
    /\ completed = [s \in Stages |-> FALSE]
    /\ cancelled = [s \in Stages |-> FALSE]
    /\ wg = [s \in Stages |-> c[s].opts.ConcurrencyDegree]
    /\ wk = [s \in Stages |-> NewWorkers(c[s])]
    /\ poster = IdlePoster
    /\ nextMsg = 1
    /\ crash = NoCrash
    /\ calls = [s \in Stages |-> [v \in Vals |-> 0]]
    /\ fwd = [s \in Stages |-> [v \in Vals |-> 0]]
    /\ ret = NoRet
    /\ accepted = {}
    /\ sent = [s \in Stages |-> [i \in LinkIds |-> [v \in Vals |-> 0]]]
    /\ out = <<>>
    /\ waits = [s \in Stages |-> [v \in Vals |-> <<>>]]
    /\ call = NoCall
    /\ aborted = [s \in Stages |-> [v \in Vals |-> 0]]

\* Blocks built from the configurations c, the head having the links ts.
BuiltWith(c, ts) == BuiltLinked(c, [s \in Stages |-> IF s = 1 THEN ts ELSE <<>>])

\* Blocks built from the configurations c, the head linked to stage 2.
Built(c) == BuiltWith(c, LinkTargets(<<>>, 2))

\* User functions: one that always succeeds, one that fails for good on the
\* first message only.
Succeeds == [v \in Vals |-> 0]
FailsFirst == [v \in Vals |-> IF v = 1 THEN Always ELSE 0]

\* The collector of the tests: an action that always succeeds, default options.
Collector == StageCfg("action", DefaultBlockOptions, Succeeds)

\* Heads of every kind without a retry policy.
PlainHeads ==
    {StageCfg(k, WithBufferSize(WithConcurrencyDegree(DefaultBlockOptions, d), b), p) :
        k \in Kinds, d \in 1..MaxDegree, b \in 0..1, p \in {Succeeds, FailsFirst}}

Init == \E h \in PlainHeads : Built([s \in Stages |-> IF s = 1 THEN h ELSE Collector])

Worker(s, w) ==
    \/ Recv(s, w)
    \/ Exec(s, w)
    \/ Forward(s, w)
    \/ Closing(s, w)
    \/ WgDone(s, w)

Next ==
    \/ PostCheck(1)
    \/ PostSend
    \/ \E s \in Stages : Complete(s)
    \/ \E s \in Stages, w \in WorkerIds : Worker(s, w)
    \/ WaitAll

Spec == Init /\ [][Next]_vars

----------------------------------------------------------------------------
(* Lifecycle properties, checked under Spec. *)

\* Closes of stage d's input made by the workers of the stages linked to it:
\* every close but the one Complete made.
LinkCloses(d) == closeCount[d] - (IF stopOnce[d] THEN 1 ELSE 0)

AllExited(s) == \A w \in Workers(s) : wk[s][w].pc = "exited"

\* C1: a Post made after Complete() has returned on the stage returns false:
\* it never returns true and never panics with a send on the closed input.
C1_PostAfterCompleteReturnsFalse ==
    /\ (ret.op = "Post" /\ ret.late => ~ret.ok)
    /\ (crash.by = "Post" => ~poster.late)

\* C2: a Post made after the stage recorded a fault returns false: it is
\* rejected at the completed check and never reaches the send.
C2_PostAfterFaultReturnsFalse ==
    /\ (ret.op = "Post" /\ ret.faulted => ~ret.ok)
    /\ (poster.pc = "send" => ~poster.faulted)

\* C2's case: a Post was rejected on a faulted stage whose input is still open
\* and whose workers have not signalled completion.
C2_Witness ==
    /\ ret.op = "Post" /\ ret.faulted /\ ~ret.ok
    /\ ~Closed(ret.s) /\ ~completed[ret.s] /\ ~stopOnce[ret.s]

\* C3: Complete() is idempotent: no Complete call panics, and a call after
\* the first closes nothing.
C3_CompleteIdempotent ==
    /\ crash.by # "Complete"
    /\ (ret.op = "Complete" /\ ~ret.ok => stopOnce[ret.s])

\* C4: the input channel of the linked stage is closed at most once over the
\* upstream worker's deferred close and the stage's own Complete().
C4_InputClosedAtMostOnce == \A d \in Stages : closeCount[d] <= 1

\* C5: each link channel of a Buffer or Transform stage is closed exactly once
\* by the stage's exiting workers: at most once at any time, and once when all
\* its workers have exited.
C5_LinkClosedExactlyOnce ==
    \A s \in Stages :
        cfg[s].kind # "action" =>
            \A i \in 1..Len(targets[s]) :
                /\ LinkCloses(targets[s][i].ch) <= 1
                /\ (AllExited(s) => LinkCloses(targets[s][i].ch) = 1)

----------------------------------------------------------------------------
(* A chain completed at its head only, all functions succeeding. *)

ChainHeads ==
    {StageCfg(k, WithBufferSize(WithConcurrencyDegree(DefaultBlockOptions, d), b),
              Succeeds) :
        k \in Kinds, d \in 1..MaxDegree, b \in 0..1}

ChainInit ==
    \E h \in ChainHeads : Built([s \in Stages |-> IF s = 1 THEN h ELSE Collector])

ChainNext ==
    \/ PostCheck(1)
    \/ PostSend
    \/ Complete(1)
    \/ \E s \in Stages, w \in WorkerIds : Worker(s, w)
    \/ WaitAll

\* Every goroutine that can take a step is scheduled: the workers, the
\* producer inside Post and the caller of WaitAll.
ChainSpec ==
    /\ ChainInit
    /\ [][ChainNext]_vars
    /\ \A s \in Stages, w \in WorkerIds : WF_vars(Worker(s, w))
    /\ WF_vars(PostSend)
    /\ WF_vars(WaitAll)

\* C6: once every message is posted and Complete() was called on the head,
\* WaitAll over the chain eventually returns a nil error.
C6_ChainCompletes ==
    (nextMsg > MaxMsgs /\ poster.pc = "idle" /\ stopOnce[1])
        ~> (ret.op = "WaitAll" /\ ret.err = NoErr)

----------------------------------------------------------------------------
(* Retry: a Transform or Action head with a retry policy, linked to the     *)
(* collector.                                                               *)

\* The user function that fails on the first j attempts of every message.
FailsTimes(j) == [v \in Vals |-> j]

\* No policy; every MaxRetries with a backoff; one policy without a backoff.
Policies ==
    {NoPolicy} \cup {Policy(n, 1) : n \in 0..MaxAttempts} \cup {Policy(2, 0)}

RetryHeads ==
    {StageCfg(k, WithRetryPolicy(WithBufferSize(WithConcurrencyDegree(
                     DefaultBlockOptions, d), MaxMsgs), pol), FailsTimes(j)) :
        k \in {"transform", "action"}, d \in {1, MaxDegree}, pol \in Policies,
        j \in 0..Always}

RetryInit ==
    \E h \in RetryHeads : Built([s \in Stages |-> IF s = 1 THEN h ELSE Collector])

RetryNext ==
    \/ PostCheck(1)
    \/ PostSend
    \/ Complete(1)
    \/ \E s \in Stages, w \in WorkerIds : Worker(s, w)
    \/ \E s \in Stages, w \in WorkerIds : BackoffDone(s, w)
    \/ WaitAll

RetrySpec == RetryInit /\ [][RetryNext]_vars

RetryPolicyOf(s) == cfg[s].opts.RetryPolicy

\* Some worker of s holds message m: it is invoking, waiting or forwarding.
InFlight(s, m) ==
    \E w \in Workers(s) :
        wk[s][w].msg = m /\ wk[s][w].pc \in {"exec", "backoff", "fwd"}

\* Stage s took message m and its worker is done with it.
Settled(s, m) == calls[s][m] > 0 /\ ~InFlight(s, m)

C8_RetriesFollowInitialAttempt ==
    \A m \in Msgs :
        LET R == RetryPolicyOf(1).MaxRetries
        IN (RetryPolicyOf(1).set /\ R >= 1 /\ Settled(1, m)) =>
              /\ (cfg[1].plan[m] = Always => calls[1][m] = R + 1)
              /\ (cfg[1].plan[m] = R =>
                     calls[1][m] = R + 1 /\ fwd[1][m] = 1 /\ fault[1] = NoErr)

\* C9: with MaxRetries = N, a function that fails on attempts 1..k-1 of a
\* message and succeeds on attempt k <= N is invoked exactly k times for it,
\* its result is forwarded exactly once and the message records no fault.
C9_SucceedsOnAttemptK ==
    \A m \in Msgs :
        LET N == RetryPolicyOf(1).MaxRetries
            k == cfg[1].plan[m] + 1
        IN (RetryPolicyOf(1).set /\ N >= 1 /\ k <= N) =>
              /\ calls[1][m] <= k
              /\ fwd[1][m] <= 1
              /\ fault[1] # ErrOf(m)
              /\ (Settled(1, m) => calls[1][m] = k /\ fwd[1][m] = 1)

\* C9's case: two workers, every message settled after a failed first attempt.
C9_Witness ==
    /\ RetryPolicyOf(1).set
    /\ cfg[1].opts.ConcurrencyDegree > 1
    /\ \A m \in Msgs :
          /\ cfg[1].plan[m] >= 1
          /\ cfg[1].plan[m] < RetryPolicyOf(1).MaxRetries
          /\ Settled(1, m)
          /\ calls[1][m] = cfg[1].plan[m] + 1
          /\ fwd[1][m] = 1

----------------------------------------------------------------------------
(* Faults, checked under Spec. *)

\* Every worker of s has returned from its loop.
LeftLoop(s) ==
    \A w \in Workers(s) : wk[s][w].pc \in {"closing", "wgdone", "exited"}

----------------------------------------------------------------------------
(* Backpressure, checked under Spec. *)

\* The input buffer of s is full (an unbuffered input has no room at all) and
\* no worker of s stands at its receive.
InputFull(s) ==
    /\ Len(input[s]) >= Cap(s)
    /\ (Cap(s) = 0 => ParkedWorkers(s, wk) = {})

\* C12: Post never blocks: the producer inside Post can always take its step,
\* and when the input buffer is full and no worker is ready to receive, that
\* step returns false and leaves the input buffer and the workers as they
\* were: the message is dropped, not queued.
C12_PostNeverBlocks ==
    /\ [](poster.pc = "send" /\ crash = NoCrash => ENABLED PostSend)
    /\ [][(poster.pc = "send" /\ poster'.pc = "idle" /\ InputFull(poster.s)) =>
            /\ ret'.op = "Post" /\ ret'.m = poster.m /\ ~ret'.ok
            /\ input' = input
            /\ wk' = wk
            /\ accepted' = accepted]_vars

\* C12's case: a Post was refused on an open, unfaulted stage whose buffer of
\* capacity one still holds the earlier message and nothing else.
C12_Witness ==
    /\ ret.op = "Post" /\ ~ret.ok /\ ~ret.late /\ ~ret.faulted
    /\ Cap(ret.s) > 0
    /\ input[ret.s] = <<1>>
    /\ ret.m = 2 /\ ret.m \notin accepted
    /\ ~Closed(ret.s) /\ crash = NoCrash

----------------------------------------------------------------------------
(* Order: a Buffer or identity Transform head linked to a collector that    *)
(* records what it is given.                                                *)

FifoHeads ==
    {StageCfg(k, WithBufferSize(WithConcurrencyDegree(DefaultBlockOptions, d), b),
              Succeeds) : k \in {"buffer"}, d \in 1..MaxDegree, b \in {0, MaxMsgs}}
    \cup
    {Identity(StageCfg(k, WithBufferSize(WithConcurrencyDegree(
                  DefaultBlockOptions, d), b), Succeeds)) :
        k \in {"transform"}, d \in 1..MaxDegree, b \in {0, MaxMsgs}}

FifoInit ==
    \E h \in FifoHeads :
        Built([s \in Stages |-> IF s = 1 THEN h ELSE Recording(Collector)])

FifoNext ==
    \/ PostCheck(1)
    \/ PostSend
    \/ Complete(1)
    \/ \E s \in Stages, w \in WorkerIds : Worker(s, w)
    \/ WaitAll

FifoSpec == FifoInit /\ [][FifoNext]_vars

\* The messages of set S in increasing order: the order in which the producer
\* posted them.
RECURSIVE InOrder(_)
InOrder(S) ==
    IF S = {} THEN <<>>
    ELSE LET m == CHOOSE x \in S : \A y \in S : x <= y
         IN <<m>> \o InOrder(S \ {m})

IsPrefix(p, q) == Len(p) <= Len(q) /\ SubSeq(q, 1, Len(p)) = p

AllDegreeOne == \A s \in Stages : cfg[s].opts.ConcurrencyDegree = 1

\* C13: in a chain whose stages all have one worker and pass their input on
\* unchanged, what reaches the end of the chain is at every moment a prefix of
\* the accepted messages in the order they were posted, and is all of them
\* once WaitAll has returned.
C13_FifoAtDegreeOne ==
    AllDegreeOne =>
        /\ IsPrefix(out, InOrder(accepted))
        /\ (ret.op = "WaitAll" => out = InOrder(accepted))

\* C13's case: every message was accepted by a one-worker chain and WaitAll
\* returned with all of them recorded.
C13_Witness ==
    /\ AllDegreeOne
    /\ accepted = Msgs
    /\ ret.op = "WaitAll"
    /\ out = InOrder(Msgs)

----------------------------------------------------------------------------
(* Flow: a Buffer or Transform head with n workers linked to the collector, *)
(* every goroutine being scheduled.                                         *)

FlowHeads ==
    {StageCfg(k, WithBufferSize(WithConcurrencyDegree(DefaultBlockOptions, d), b),
              Succeeds) :
        k \in {"buffer", "transform"}, d \in 1..MaxDegree, b \in {0, MaxMsgs}}

FlowInit ==
    \E h \in FlowHeads : Built([s \in Stages |-> IF s = 1 THEN h ELSE Collector])

FlowNext ==
    \/ PostCheck(1)
    \/ PostSend
    \/ Complete(1)
    \/ \E s \in Stages, w \in WorkerIds : Worker(s, w)
    \/ WaitAll

FlowSpec ==
    /\ FlowInit
    /\ [][FlowNext]_vars
    /\ \A s \in Stages, w \in WorkerIds : WF_vars(Worker(s, w))
    /\ WF_vars(PostSend)
    /\ WF_vars(WaitAll)

\* The collector processed exactly once what the head emits for each accepted
\* message.
AllProcessedOnce == \A m \in accepted : calls[2][Emitted(1, m)] = 1

\* C14: between a Buffer or Transform head with n >= 1 workers and the Action
\* linked to it nothing is duplicated and nothing is lost: the collector never
\* processes a value twice, and once the producer is done and Complete() was
\* called on the head, WaitAll returns with every accepted message processed
\* exactly once downstream.
C14_NoLossNoDuplication ==
    /\ [](\A v \in Vals : calls[2][v] <= 1)
    /\ (nextMsg > MaxMsgs /\ poster.pc = "idle" /\ stopOnce[1])
          ~> (ret.op = "WaitAll" /\ AllProcessedOnce)

----------------------------------------------------------------------------
(* WaitAll over two stages that can both fault: a Transform or Action head  *)
(* whose function fails on one message or none, linked to an Action whose   *)
(* function fails always or never and which has one or more workers.  Both  *)
(* functions record their input, and either stage may be completed by its   *)
(* owner.                                                                   *)

\* The user function that fails for good on message m only.
FailsOnly(m) == [v \in Vals |-> IF v = m THEN Always ELSE 0]

WaitHeads ==
    {Recording(StageCfg(k, WithBufferSize(DefaultBlockOptions, MaxMsgs), p)) :
        k \in {"transform", "action"},
        p \in {Succeeds} \cup {FailsOnly(m) : m \in Msgs}}

WaitTails ==
    {Recording(StageCfg("action", WithConcurrencyDegree(DefaultBlockOptions, d), p)) :
        d \in 1..MaxDegree, p \in {Succeeds, FailsTimes(Always)}}

WaitInit ==
    \E h \in WaitHeads, c \in WaitTails :
        Built([s \in Stages |-> IF s = 1 THEN h ELSE c])

WaitNext ==
    \/ PostCheck(1)
    \/ PostSend
    \/ \E s \in Stages : Complete(s)
    \/ \E s \in Stages, w \in WorkerIds : Worker(s, w)
    \/ \E s \in Stages : Wait(s)
    \/ WaitAll

WaitSpec == WaitInit /\ [][WaitNext]_vars

\* C15: what WaitAll(s1, s2) returned is the fault of the first stage in
\* argument order that holds one, whichever stage faulted or finished first,
\* and nil when no stage holds a fault.
C15_WaitAllFirstInStageOrder ==
    ret.op = "WaitAll" =>
        /\ \A s \in Stages :
              (fault[s] # NoErr /\ \A r \in Stages : r < s => fault[r] = NoErr)
                  => ret.err = fault[s]
        /\ ((\A s \in Stages : fault[s] = NoErr) => ret.err = NoErr)

\* C15's case: the second stage faulted first (on what the head emitted for
\* message 1, before the head failed on message 2), both stages hold a fault,
\* and WaitAll returned the head's.
C15_Witness ==
    /\ ret.op = "WaitAll"
    /\ out = <<1, Emitted(1, 1), 2>>
    /\ fault[1] = ErrOf(2)
    /\ fault[2] = ErrOf(Emitted(1, 1))
    /\ ret.err = fault[1]

\* A value that only a Transform head emits.
IsResult(v) == v > MaxMsgs

\* The Fault calls of stage 2 in order, as the values they were made for, when
\* its function always fails and the head is a Transform.
FaultCalls == SelectSeq(out, IsResult)

\* C16: a recorded fault is never replaced, and it is the error of the first
\* Fault call: with an always failing function in stage 2, the stage's fault is
\* the error of the first value it was invoked on, whatever its workers did
\* afterwards.
C16_FirstFaultWins ==
    /\ [][\A s \in Stages : fault[s] # NoErr => fault'[s] = fault[s]]_vars
    /\ []((cfg[1].kind = "transform" /\ cfg[2].plan = FailsTimes(Always)) =>
            fault[2] = IF FaultCalls = <<>> THEN NoErr ELSE ErrOf(Head(FaultCalls)))

\* C16's case: two workers of stage 2 failed on both values, the one holding
\* the second value first; the fault is still that first error.
C16_Witness ==
    /\ cfg[1].kind = "transform"
    /\ cfg[2].opts.ConcurrencyDegree > 1
    /\ FaultCalls = <<TransformResult(2), TransformResult(1)>>
    /\ fault[2] = ErrOf(TransformResult(2))

\* Every attempt stage s made on m failed and its worker is done with m.
Exhausted(s, m) == Settled(s, m) /\ calls[s][m] <= cfg[s].plan[m]

----------------------------------------------------------------------------
(* A Transform head whose function returns (nil, nil) for some messages.    *)

\* The transform that returns (nil, nil) on the messages of S and a result
\* on the others.
NilOn(S) == [v \in Vals |-> IF v \in S THEN NilResult ELSE 0]

NilHeads ==
    {StageCfg("transform", WithBufferSize(WithConcurrencyDegree(
                  DefaultBlockOptions, d), MaxMsgs), NilOn(S)) :
        d \in 1..MaxDegree, S \in (SUBSET Msgs) \ {{}}}

NilInit ==
    \E h \in NilHeads : Built([s \in Stages |-> IF s = 1 THEN h ELSE Collector])

NilNext ==
    \/ PostCheck(1)
    \/ PostSend
    \/ Complete(1)
    \/ \E s \in Stages, w \in WorkerIds : Worker(s, w)
    \/ WaitAll

NilSpec == NilInit /\ [][NilNext]_vars

\* C18: a message for which the transform returns (nil, nil) is consumed by
\* one invocation, is sent to no link and records no fault, and its worker
\* goes on: no worker forwards for it or returns while the input is open, and
\* the other accepted messages are forwarded once their worker is done, none
\* being left behind when the workers have returned.
C18_NilResultDropped ==
    /\ fault[1] = NoErr
    /\ \A w \in Workers(1) :
          /\ wk[1][w].pc = "fwd" => cfg[1].plan[wk[1][w].msg] # NilResult
          /\ wk[1][w].pc \in {"closing", "wgdone", "exited"} => Closed(1)
    /\ \A m \in Msgs :
          IF cfg[1].plan[m] = NilResult
          THEN /\ calls[1][m] <= 1
               /\ fwd[1][m] = 0
               /\ \A i \in LinkIds : sent[1][i][TransformResult(m)] = 0
               /\ calls[2][TransformResult(m)] = 0
          ELSE m \in accepted =>
                 /\ (Settled(1, m) => fwd[1][m] = 1)
                 /\ (LeftLoop(1) => Settled(1, m) /\ fwd[1][m] = 1)

\* C18's case: the one worker got nil for message 1, sent nothing, recorded
\* no fault and then took and forwarded message 2, its input still open.
C18_Witness ==
    /\ cfg[1].opts.ConcurrencyDegree = 1
    /\ cfg[1].plan[1] = NilResult /\ cfg[1].plan[2] = 0
    /\ Settled(1, 1) /\ fwd[1][1] = 0
    /\ Settled(1, 2) /\ fwd[1][2] = 1
    /\ fault[1] = NoErr /\ ~Closed(1) /\ crash = NoCrash

----------------------------------------------------------------------------
(* Links: a one-worker head of any kind with zero or more links to stage 2, *)
(* each with a filter or none.                                              *)

\* The filters in use: none, one passing message 1 only, and one passing the
\* transform's result for message 1 and message 2.
Filters == {NilFilter, Filter({1}), Filter({TransformResult(1), 2})}

RECURSIVE SeqsUpTo(_, _)
SeqsUpTo(S, n) ==
    IF n = 0 THEN {<<>>}
    ELSE LET shorter == SeqsUpTo(S, n - 1)
         IN shorter \cup {Append(q, x) : q \in {r \in shorter : Len(r) = n - 1}, x \in S}

LinkHeads ==
    {StageCfg(k, WithBufferSize(DefaultBlockOptions, MaxMsgs), p) :
        k \in Kinds, p \in {Succeeds, FailsFirst}}

LinkInit ==
    \E h \in LinkHeads, fs \in SeqsUpTo(Filters, MaxLinks) :
        BuiltWith([s \in Stages |-> IF s = 1 THEN h ELSE Collector],
                  LinkAll(<<>>, 2, fs))

LinkNext ==
    \/ PostCheck(1)
    \/ PostSend
    \/ Complete(1)
    \/ \E s \in Stages, w \in WorkerIds : Worker(s, w)

LinkSpec == LinkInit /\ [][LinkNext]_vars

\* Link i of the head is registered and its filter is absent or passes v.
Matches(i, v) ==
    /\ i <= Len(targets[1])
    /\ (targets[1][i].hasFilter => v \in targets[1][i].pass)

\* The head accepted m and is done with it.
Done(m) ==
    /\ m \in accepted
    /\ \A k \in 1..Len(input[1]) : input[1][k] # m
    /\ ~InFlight(1, m)

\* The head's function succeeds on m (a Buffer has none).
Succeeded(m) == cfg[1].kind = "buffer" \/ cfg[1].plan[m] = 0

\* C19: an Action stage sends on its links nothing but original messages;
\* for a message its function succeeded on, once on each matching link and
\* on no other by the time its worker is done with it; for a message that
\* failed, on no link at all.
C19_ActionForwardsOriginal ==
    cfg[1].kind = "action" =>
        /\ \A i \in LinkIds, v \in Vals \ Msgs : sent[1][i][v] = 0
        /\ \A v \in Vals \ Msgs : calls[2][v] = 0
        /\ \A m \in Msgs, i \in LinkIds :
              /\ sent[1][i][m] <= IF Succeeded(m) /\ Matches(i, m) THEN 1 ELSE 0
              /\ (Done(m) /\ Succeeded(m) /\ Matches(i, m)) => sent[1][i][m] = 1
        /\ \A m \in Msgs : ~Succeeded(m) => fwd[1][m] = 0

\* C19's case: an Action with an unfiltered and a filtered link failed on
\* message 1, sending nothing, and sent message 2 once on each link.
C19_Witness ==
    /\ cfg[1].kind = "action"
    /\ Len(targets[1]) = 2
    /\ ~targets[1][1].hasFilter /\ targets[1][2].hasFilter
    /\ Done(1) /\ ~Succeeded(1) /\ fault[1] = ErrOf(1)
    /\ \A i \in LinkIds : sent[1][i][1] = 0
    /\ Done(2) /\ sent[1][1][2] = 1 /\ sent[1][2][2] = 1

\* C20: what a stage emits for a message goes to exactly the links whose
\* filter is absent or passes the emitted value, the transform's result for a
\* Transform: never to another link or twice, and to every such link by the
\* time the worker is done with the message.
C20_Multicast ==
    \A m \in Msgs, i \in LinkIds :
        LET e == IF cfg[1].kind = "transform" THEN TransformResult(m) ELSE m
        IN /\ sent[1][i][e] <= IF Succeeded(m) /\ Matches(i, e) THEN 1 ELSE 0
           /\ (Done(m) /\ Succeeded(m)) =>
                 sent[1][i][e] = IF Matches(i, e) THEN 1 ELSE 0

\* C20's case: a Transform with two filtered links is done with both
\* messages: the result for message 1 went to the second link only, the
\* result for message 2 to neither.
C20_Witness ==
    /\ cfg[1].kind = "transform"
    /\ Len(targets[1]) = 2
    /\ targets[1][1].hasFilter /\ targets[1][2].hasFilter
    /\ Done(1) /\ Done(2) /\ Succeeded(1) /\ Succeeded(2)
    /\ sent[1][1][TransformResult(1)] = 0 /\ sent[1][2][TransformResult(1)] = 1
    /\ \A i \in LinkIds : sent[1][i][TransformResult(2)] = 0

----------------------------------------------------------------------------
(* Workers of a stage, checked under Spec. *)

\* The goroutines stage s has started.
Started(s) == {w \in WorkerIds : wk[s][w].pc # "unused"}

\* C21: a stage has started exactly as many workers as its resolved
\* concurrency degree, the wait group counts those of them that have not
\* returned, and no step, whether a Post, a Complete or a Fault, starts
\* another one.
C21_WorkersFixed ==
    /\ [](\A s \in Stages :
            /\ Cardinality(Started(s)) = cfg[s].opts.ConcurrencyDegree
            /\ wg[s] = Cardinality({w \in Started(s) : wk[s][w].pc # "exited"}))
    /\ [][\A s \in Stages, w \in WorkerIds :
            wk[s][w].pc = "unused" => wk'[s][w].pc = "unused"]_vars

\* C21's case: a stage of two workers took a message, recorded a fault and was
\* completed, and one of its two workers has returned.
C21_Witness ==
    /\ cfg[1].opts.ConcurrencyDegree = 2
    /\ accepted # {} /\ fault[1] # NoErr /\ stopOnce[1]
    /\ Cardinality(Started(1)) = 2
    /\ wg[1] = 1

----------------------------------------------------------------------------
(* Option resolution: applyOptions over lists of options, checked under     *)
(* OptSpec.  The constructors resolve their options with it.                *)

\* The options a caller can write: a policy, a degree, a buffer size; degrees
\* and sizes include the values the option functions ignore.
OptRetry(p) == [opt |-> "WithRetryPolicy", policy |-> p, n |-> 0]
OptDegree(d) == [opt |-> "WithConcurrencyDegree", policy |-> NoPolicy, n |-> d]
OptBuffer(n) == [opt |-> "WithBufferSize", policy |-> NoPolicy, n |-> n]

Options ==
    {OptRetry(p) : p \in Policies \ {NoPolicy}}
        \cup {OptDegree(d) : d \in (0 - 1)..MaxDegree}
        \cup {OptBuffer(n) : n \in (0 - 1)..MaxMsgs}

\* applyOptions: the defaults, then opt(&options) for every option in the
\* order given.
RECURSIVE ApplyFrom(_, _)
ApplyFrom(o, opts) ==
    IF opts = <<>> THEN o
    ELSE LET x == Head(opts)
             o1 == CASE x.opt = "WithRetryPolicy" -> WithRetryPolicy(o, x.policy)
                     [] x.opt = "WithConcurrencyDegree" ->
                            WithConcurrencyDegree(o, x.n)
                     [] x.opt = "WithBufferSize" -> WithBufferSize(o, x.n)
         IN ApplyFrom(o1, Tail(opts))

applyOptions(opts) == ApplyFrom(DefaultBlockOptions, opts)

\* A call that has not run yet.
Calling(fn, arg) == [fn |-> fn, arg |-> arg, res |-> <<>>, done |-> FALSE]

\* A caller hands a constructor a list of options: up to one per kind of
\* option there is, repeats allowed.
Construct ==
    /\ call = NoCall
    /\ \E n \in 0..Cardinality({x.opt : x \in Options}) :
          \E opts \in [1..n -> Options] : call' = Calling("applyOptions", opts)
    /\ UNCHANGED <<cfg, input, closeCount, targets, stopOnce, fault, completed,
                   cancelled, wg, wk, poster, nextMsg, crash, calls, fwd, ret,
                   accepted, sent, out, waits, aborted>>

\* The call of applyOptions runs.
Resolve ==
    /\ call.fn = "applyOptions" /\ ~call.done
    /\ call' = [call EXCEPT !.res = applyOptions(call.arg), !.done = TRUE]
    /\ UNCHANGED <<cfg, input, closeCount, targets, stopOnce, fault, completed,
                   cancelled, wg, wk, poster, nextMsg, crash, calls, fwd, ret,
                   accepted, sent, out, waits, aborted>>

OptSpec == Built([s \in Stages |-> Collector]) /\ [][Construct \/ Resolve]_vars

\* The call of applyOptions on opts has returned.
Resolved(opts) == call.fn = "applyOptions" /\ call.done /\ call.arg = opts

\* C22: an empty option list resolves to no retry policy, one worker and an
\* unbuffered input; the list WithRetryPolicy(p), WithConcurrencyDegree(d),
\* WithBufferSize(s) with d > 0 and s > 0 resolves to exactly p, d and s.
C22_OptionsResolve ==
    /\ Resolved(<<>>) =>
          /\ ~call.res.RetryPolicy.set
          /\ call.res.ConcurrencyDegree = 1
          /\ call.res.BufferSize = 0
    /\ \A p \in Policies \ {NoPolicy}, d \in 1..MaxDegree, s \in 1..MaxMsgs :
          Resolved(<<OptRetry(p), OptDegree(d), OptBuffer(s)>>) =>
              /\ call.res.RetryPolicy = p
              /\ call.res.ConcurrencyDegree = d
              /\ call.res.BufferSize = s

\* C22's case: the three options with a degree and a size other than the
\* defaults have been resolved.
C22_Witness ==
    /\ Resolved(<<OptRetry(Policy(MaxAttempts, 1)), OptDegree(MaxDegree),
                  OptBuffer(MaxMsgs)>>)
    /\ call.res.ConcurrencyDegree = MaxDegree

\* C23: a set of options, at most one of each of concurrency, buffer size and
\* retry policy, resolves to the same BlockOptions in whatever order it is
\* written.
C23_OrderIndependent ==
    LET opts == call.arg
        Ix == 1..Len(opts)
        OnePerKind == \A i, j \in Ix : i # j => opts[i].opt # opts[j].opt
        Orders == {[i \in Ix |-> opts[f[i]]] :
                      f \in {g \in [Ix -> Ix] : \A i, j \in Ix : i # j => g[i] # g[j]}}
    IN (call.fn = "applyOptions" /\ call.done /\ OnePerKind) =>
           \A q \in Orders : applyOptions(q) = call.res

\* C23's case: the three options were resolved with the buffer size written
\* first and the retry policy last, and each of them took effect.
C23_Witness ==
    /\ Resolved(<<OptBuffer(MaxMsgs), OptDegree(MaxDegree),
                  OptRetry(Policy(MaxAttempts, 1))>>)
    /\ call.res = [RetryPolicy |-> Policy(MaxAttempts, 1),
                   ConcurrencyDegree |-> MaxDegree, BufferSize |-> MaxMsgs]

----------------------------------------------------------------------------
(* Backoff between attempts, checked under BackoffSpec: a one-worker        *)
(* transform or action with a retry policy of up to Always attempts and a   *)
(* Backoff of 0..MaxAttempts units, whose function fails a fixed number of  *)
(* times.                                                                   *)

BackoffHeads ==
    {StageCfg(k, WithRetryPolicy(WithBufferSize(DefaultBlockOptions, MaxMsgs),
                                 Policy(n, b)), FailsTimes(j)) :
        k \in {"transform", "action"}, n \in 1..Always, b \in 0..MaxAttempts,
        j \in 0..Always}

BackoffSpec ==
    /\ \E h \in BackoffHeads : Built([s \in Stages |-> IF s = 1 THEN h ELSE Collector])
    /\ [][RetryNext]_vars

\* The failed attempts on m after which another attempt remained.
FailedWithMore(s, m) ==
    LET failed == IF calls[s][m] < cfg[s].plan[m] THEN calls[s][m]
                  ELSE cfg[s].plan[m]
    IN IF ~Retrying(s) THEN 0
       ELSE IF failed < RetryPolicyOf(s).MaxRetries THEN failed
       ELSE RetryPolicyOf(s).MaxRetries - 1

\* C24: under a policy with a positive Backoff the worker waits once after
\* every failed attempt that leaves another attempt, the wait after failed
\* attempt i (0-based) is Backoff * (i + 1), and there is no wait after the
\* final attempt; a message that fails twice and succeeds on the third attempt
\* under Backoff b is forwarded after waits of b and 2b.
C24_BackoffScales ==
    \A m \in Msgs :
        /\ Len(waits[1][m]) =
               IF RetryPolicyOf(1).Backoff > 0 THEN FailedWithMore(1, m) ELSE 0
        /\ \A i \in 1..Len(waits[1][m]) :
               waits[1][m][i] = RetryPolicyOf(1).Backoff * i
        /\ (/\ cfg[1].plan[m] = 2
            /\ RetryPolicyOf(1).MaxRetries > 2
            /\ RetryPolicyOf(1).Backoff > 0
            /\ sent[1][1][Emitted(1, m)] > 0)
              => waits[1][m] = <<RetryPolicyOf(1).Backoff, 2 * RetryPolicyOf(1).Backoff>>

\* C24's case: a transform with three attempts and a Backoff of 2 whose
\* function failed twice on message 1 forwarded the result of the third
\* attempt after waits of 2 and 4.
C24_Witness ==
    /\ cfg[1].kind = "transform"
    /\ RetryPolicyOf(1).MaxRetries > 2 /\ RetryPolicyOf(1).Backoff = 2
    /\ cfg[1].plan[1] = 2
    /\ calls[1][1] = cfg[1].plan[1] + 1
    /\ sent[1][1][Emitted(1, 1)] = 1
    /\ waits[1][1] = <<2, 4>>

----------------------------------------------------------------------------
(* Cancellation, checked under CancelSpec: the context of the head is       *)
(* cancelled at any moment, and every select of its workers has a           *)
(* ctx.Done() case.  The head has a buffered input, which stays open.       *)

\* The owner cancels the context of stage s.
Cancel(s) ==
    /\ crash = NoCrash
    /\ ~cancelled[s]
    /\ cancelled' = [cancelled EXCEPT ![s] = TRUE]
    /\ UNCHANGED <<cfg, input, closeCount, targets, stopOnce, fault, completed,
                   wg, wk, poster, nextMsg, crash, calls, fwd, ret, accepted,
                   sent, out, waits, call, aborted>>

\* case <-b.ctx.Done(): return, at the head of the loop.
RecvCancelled(s, w) ==
    /\ crash = NoCrash
    /\ wk[s][w].pc = "recv"
    /\ cancelled[s]
    /\ wk' = [wk EXCEPT ![s][w] = [Parked EXCEPT !.pc = ExitPc(s)]]
    /\ UNCHANGED <<cfg, input, closeCount, targets, stopOnce, fault, completed,
                   cancelled, wg, poster, nextMsg, crash, calls, fwd, ret,
                   accepted, sent, out, waits, call, aborted>>

\* case <-b.ctx.Done(): return, in the select that sends to a target.
ForwardCancelled(s, w) ==
    /\ crash = NoCrash
    /\ wk[s][w].pc = "fwd"
    /\ cancelled[s]
    /\ Accepts(wk[s][w].snap[wk[s][w].idx], wk[s][w].res)
    /\ wk' = [wk EXCEPT ![s][w] = [Parked EXCEPT !.pc = ExitPc(s)]]
    /\ UNCHANGED <<cfg, input, closeCount, targets, stopOnce, fault, completed,
                   cancelled, wg, poster, nextMsg, crash, calls, fwd, ret,
                   accepted, sent, out, waits, call, aborted>>

\* A cancelled wait that goes on to the next attempt.
CancelledBackoffRetries(s, loc) == [loc EXCEPT !.pc = "exec"]

\* return nil, b.ctx.Err() out of the wait, then `b.Fault(err); continue` in
\* process: the worker is back at its select.
CancelledBackoff(s, loc) == AfterFault(s, loc)

\* case <-b.ctx.Done() in the wait between two attempts.
BackoffCancelled(s, w) ==
    /\ crash = NoCrash
    /\ wk[s][w].pc = "backoff"
    /\ cancelled[s]
    /\ fault' = [fault EXCEPT ![s] = FaultValue(@, CtxErr)]
    /\ aborted' = [aborted EXCEPT ![s][wk[s][w].msg] = calls[s][wk[s][w].msg]]
    /\ wk' = [wk EXCEPT ![s][w] = CancelledBackoff(s, wk[s][w])]
    /\ UNCHANGED <<cfg, input, closeCount, targets, stopOnce, completed,
                   cancelled, wg, poster, nextMsg, crash, calls, fwd, ret,
                   accepted, sent, out, waits, call>>

\* The ctx.Done() cases of a worker.
Cancelled(s, w) ==
    \/ RecvCancelled(s, w)
    \/ ForwardCancelled(s, w)
    \/ BackoffCancelled(s, w)

CancelHeads ==
    {StageCfg(k, WithRetryPolicy(WithBufferSize(WithConcurrencyDegree(
                     DefaultBlockOptions, d), MaxMsgs), pol), FailsTimes(j)) :
        k \in Kinds, d \in 1..MaxDegree,
        pol \in {NoPolicy, Policy(MaxAttempts, 1)}, j \in {0, 1, Always}}

CancelNext ==
    \/ PostCheck(1)
    \/ PostSend
    \/ Cancel(1)
    \/ \E s \in Stages, w \in WorkerIds : Worker(s, w)
    \/ \E s \in Stages, w \in WorkerIds : BackoffDone(s, w)
    \/ \E s \in Stages, w \in WorkerIds : Cancelled(s, w)
    \/ Wait(1)

\* Every goroutine that can take a step is scheduled: the workers, whose
\* timers fire, the producer inside Post and the caller of Wait.
CancelSpec ==
    /\ \E h \in CancelHeads : Built([s \in Stages |-> IF s = 1 THEN h ELSE Collector])
    /\ [][CancelNext]_vars
    /\ \A s \in Stages, w \in WorkerIds :
          /\ WF_vars(Worker(s, w))
          /\ WF_vars(BackoffDone(s, w))
          /\ WF_vars(Cancelled(s, w))
    /\ WF_vars(PostSend)
    /\ WF_vars(Wait(1))

\* C25: when the context is cancelled during the wait between two attempts on
\* a message, the wait ends without another invocation: the function is never
\* invoked again for that message, the context's error is handed to Fault, so
\* that the stage holds a fault (this one unless it held an earlier one), and
\* no result of the message is forwarded.
C25_CancelledBackoff ==
    /\ [](\A m \in Msgs : aborted[1][m] > 0 =>
            /\ calls[1][m] = aborted[1][m]
            /\ \A i \in LinkIds : sent[1][i][Emitted(1, m)] = 0
            /\ fault[1] # NoErr
            /\ fault[1] = CtxErr \/ (fault[1].kind = "error" /\ fault[1].m # m))
    /\ [][\A w \in WorkerIds :
            (wk[1][w].pc = "backoff" /\ cancelled[1])
                => wk'[1][w].pc \in {"backoff", "recv"}]_vars

\* C25's case: the wait after the first failed attempt on message 1 was cut
\* short by cancellation, the stage holds the context's error, and the worker
\* has since taken message 2.
C25_Witness ==
    /\ aborted[1][1] = 1
    /\ fault[1] = CtxErr
    /\ calls[1][2] > 0

\* C26: once the context of a stage is cancelled, every worker of the stage
\* exits, wherever it was blocked, and Wait on the stage returns.
C26_CancelledWorkersExit ==
    cancelled[1] ~> (AllExited(1) /\ ret.op = "Wait" /\ ret.s = 1)

----------------------------------------------------------------------------
(* A user function that panics, checked under PanicSpec: a Transform or     *)
(* Action head with a buffered input that stays open.                       *)

\* Heads whose function panics on the messages of S and succeeds otherwise.
PanicHeads ==
    {StageCfg(k, WithBufferSize(WithConcurrencyDegree(DefaultBlockOptions, d),
                                MaxMsgs),
              [v \in Vals |-> IF v \in S THEN PanicPlan ELSE 0]) :
        k \in {"transform", "action"}, d \in 1..MaxDegree,
        S \in (SUBSET Msgs) \ {{}}}

PanicNext ==
    \/ PostCheck(1)
    \/ PostSend
    \/ \E s \in Stages, w \in WorkerIds : Worker(s, w)
    \/ WaitAll

\* Every goroutine that can take a step is scheduled.
PanicSpec ==
    /\ \E h \in PanicHeads : Built([s \in Stages |-> IF s = 1 THEN h ELSE Collector])
    /\ [][PanicNext]_vars
    /\ \A s \in Stages, w \in WorkerIds : WF_vars(Worker(s, w))
    /\ WF_vars(PostSend)
    /\ WF_vars(WaitAll)

\* C27: a panic of the user function never ends the process; it is recorded
\* as the stage's fault, the message it was raised on is dropped, and every
\* other message the stage has accepted is still processed.
C27_PanicIsAFault ==
    /\ [](crash = NoCrash)
    /\ [](\A m \in Msgs : (Panics(1, m) /\ calls[1][m] > 0) =>
            /\ fault[1] # NoErr
            /\ \A i \in LinkIds : sent[1][i][Emitted(1, m)] = 0)
    /\ \A m \in Msgs : (m \in accepted) ~> (calls[1][m] > 0)

----------------------------------------------------------------------------
(* Back-to-back Posts to a Transform with default options, checked under    *)
(* Spec.                                                                    *)

\* C28: on a Transform with default options every Post the producer makes
\* before Complete() returns true, and every posted message is processed
\* downstream exactly once: no result reaches the collector twice, and once
\* WaitAll has returned the collector has processed the result of every
\* message taken.
C28_SequentialPosts ==
    (/\ cfg[1].kind = "transform"
     /\ cfg[1].opts = DefaultBlockOptions
     /\ cfg[1].plan = Succeeds) =>
        /\ (ret.op = "Post" /\ ~ret.late) => ret.ok
        /\ \A v \in Vals : calls[2][v] <= 1
        /\ ret.op = "WaitAll" => \A m \in accepted : calls[2][Emitted(1, m)] = 1

----------------------------------------------------------------------------
(* The backoff functions of package dataflow, checked under DurationSpec.   *)
(* A time.Duration is an int64 of nanoseconds in two's complement, held as  *)
(* the set of the positions of its one bits; the last position is the sign. *)

\* The width of int and of time.Duration.
DurationBits == 64

\* 10 * time.Millisecond, in nanoseconds.
TenMilliseconds == 10000000

\* The binary expansion of a natural number below 2^31.
Bits(x) == {i \in 0..30 : (x \div 2^i) % 2 = 1}

\* The natural number of an expansion below 2^31.
RECURSIVE Value(_)
Value(v) ==
    IF v = {} THEN 0
    ELSE LET i == CHOOSE j \in v : TRUE IN 2^i + Value(v \ {i})

\* 1 << k on an int: the bit leaves the word once k reaches the width.
ShiftOne(k) == IF k < DurationBits THEN {k} ELSE {}

\* a * b on int64 for b zero or a power of two: the product modulo 2^64.
Times(a, b) == {i + k : i \in a, k \in b} \cap (0..(DurationBits - 1))

\* ConstantBackoff(d)(attempt)
ConstantBackoff(d, attempt) == d

\* ExponentialBackoff(initial)(attempt)
ExponentialBackoff(initial, attempt) ==
    IF attempt <= 1 THEN initial ELSE Times(initial, ShiftOne(attempt - 1))

\* A backoff function is asked for the wait before a retry, with a duration
\* of one nanosecond, of the largest Backoff of a policy or of the 10ms of
\* the test.
AskBackoff ==
    /\ ~(call.fn \in {"ExponentialBackoff", "ConstantBackoff"} /\ ~call.done)
    /\ \E fn \in {"ExponentialBackoff", "ConstantBackoff"},
          d \in {Bits(1), Bits(MaxAttempts + 1), Bits(TenMilliseconds)},
          n \in 0..MaxIndex : call' = Calling(fn, <<d, n>>)
    /\ UNCHANGED <<cfg, input, closeCount, targets, stopOnce, fault, completed,
                   cancelled, wg, wk, poster, nextMsg, crash, calls, fwd, ret,
                   accepted, sent, out, waits, aborted>>

\* The backoff function returns.
BackoffReturns ==
    /\ call.fn \in {"ExponentialBackoff", "ConstantBackoff"} /\ ~call.done
    /\ call' = [call EXCEPT
                  !.res = IF call.fn = "ConstantBackoff"
                          THEN ConstantBackoff(call.arg[1], call.arg[2])
                          ELSE ExponentialBackoff(call.arg[1], call.arg[2]),
                  !.done = TRUE]
    /\ UNCHANGED <<cfg, input, closeCount, targets, stopOnce, fault, completed,
                   cancelled, wg, wk, poster, nextMsg, crash, calls, fwd, ret,
                   accepted, sent, out, waits, aborted>>

DurationSpec ==
    Built([s \in Stages |-> Collector]) /\ [][AskBackoff \/ BackoffReturns]_vars

\* C29: ExponentialBackoff(initial) returns initial for the indices 0 and 1
\* and initial * 2^(n-1) for every index n >= 2, so that 10ms gives 10, 10,
\* 20, 40 and 80 ms for n = 0..4; ConstantBackoff(d) returns d for every
\* index.
C29_BackoffFunctions ==
    LET \* the duration v is the non-negative number of binary expansion e
        IsDuration(v, e) == v = e /\ (DurationBits - 1) \notin v
        \* the binary expansion of the number of expansion d, times 2^k
        Doubled(d, k) == {i + k : i \in d}
    IN /\ (call.fn = "ExponentialBackoff" /\ call.done) =>
             /\ call.arg[2] <= 1 => IsDuration(call.res, call.arg[1])
             /\ call.arg[2] >= 2 =>
                   IsDuration(call.res, Doubled(call.arg[1], call.arg[2] - 1))
             /\ (call.arg[1] = Bits(TenMilliseconds) /\ call.arg[2] <= 4) =>
                   Value(call.res) =
                       <<10, 10, 20, 40, 80>>[call.arg[2] + 1]
                           * (TenMilliseconds \div 10)
       /\ (call.fn = "ConstantBackoff" /\ call.done) =>
             IsDuration(call.res, call.arg[1])

----------------------------------------------------------------------------
(* Options with arguments that are not positive, checked under OptSpec.     *)

\* C37: whatever the sequence of options, WithConcurrencyDegree(d) with
\* d <= 0 and WithBufferSize(s) with s <= 0 included, the resolved options
\* have ConcurrencyDegree >= 1 and BufferSize >= 0, and a list that ends with
\* an option of a non-positive degree or size resolves to what the list
\* without it resolves to.
C37_OptionsInRange ==
    (call.fn = "applyOptions" /\ call.done) =>
        /\ call.res.ConcurrencyDegree >= 1
        /\ call.res.BufferSize >= 0
        /\ LET n == Len(call.arg)
           IN (/\ n > 0
               /\ call.arg[n].opt \in {"WithConcurrencyDegree", "WithBufferSize"}
               /\ call.arg[n].n <= 0)
                 => call.res = applyOptions(SubSeq(call.arg, 1, n - 1))

\* C37's case: a degree and a size were set, then a negative degree and a
\* zero size were given, and the values set first are the resolved ones.
C37_Witness ==
    /\ Resolved(<<OptDegree(MaxDegree), OptDegree(0 - 1), OptBuffer(0)>>)
    /\ call.res.ConcurrencyDegree = MaxDegree
    /\ call.res.BufferSize = 0

----------------------------------------------------------------------------
(* Completion through an Action stage with a link, checked under ChainSpec. *)

\* C31: once the producer is done, the input of an Action stage with a link
\* is closed and drained and its workers have exited, the link channel is
\* closed, the stage linked after it completes as well, and WaitAll over both
\* returns.
C31_ActionPropagatesCompletion ==
    (/\ cfg[1].kind = "action"
     /\ nextMsg > MaxMsgs /\ poster.pc = "idle"
     /\ stopOnce[1] /\ input[1] = <<>> /\ AllExited(1))
        ~> (Closed(2) /\ AllExited(2) /\ ret.op = "WaitAll")

----------------------------------------------------------------------------
(* LinkTo while a worker is blocked in a send, checked under LockSpec: a    *)
(* one-worker head with a buffered input, first linked once to the          *)
(* collector, takes further links while it runs.                            *)

\* A worker that keeps the read lock for the whole forwarding loop.
HoldsRLockInSend(s, w) == wk[s][w].pc = "fwd"

\* Worker w holds targetsMux at one of its blocking points: never, since
\* RUnlock follows the copy of b.targets and precedes the loop of sends.
HoldsRLock(s, w) == FALSE

\* Worker w waits in `case target.ch <- msg` for room in the target.
Blocked(s, w) ==
    /\ wk[s][w].pc = "fwd"
    /\ Accepts(wk[s][w].snap[wk[s][w].idx], wk[s][w].res)
    /\ ~Closed(wk[s][w].snap[wk[s][w].idx].ch)
    /\ ~CanSend(wk[s][w].snap[wk[s][w].idx].ch, wk)

\* b.LinkTo(target, nil) on the running stage s: Lock, append, Unlock.  The
\* call returns; ret.m notes the value a worker was blocked sending, if any.
Link(s) ==
    /\ crash = NoCrash
    /\ Len(targets[s]) < MaxLinks
    /\ \A w \in Workers(s) : ~HoldsRLock(s, w)
    /\ targets' = [targets EXCEPT ![s] = BlockLinkTo(@, NewTarget(2), NilFilter)]
    /\ ret' = [NoRet EXCEPT !.op = "LinkTo", !.s = s, !.ok = TRUE,
                            !.m = IF \E w \in Workers(s) : Blocked(s, w)
                                  THEN wk[s][CHOOSE w \in Workers(s) : Blocked(s, w)].res
                                  ELSE 0]
    /\ UNCHANGED <<cfg, input, closeCount, stopOnce, fault, completed, cancelled,
                   wg, wk, poster, nextMsg, crash, calls, fwd, accepted, sent,
                   out, waits, call, aborted>>

LockSpec ==
    /\ \E k \in Kinds :
          Built([s \in Stages |->
                    IF s = 1
                    THEN StageCfg(k, WithBufferSize(DefaultBlockOptions, MaxMsgs),
                                  Succeeds)
                    ELSE Collector])
    /\ [][\/ PostCheck(1)
          \/ PostSend
          \/ Complete(1)
          \/ Link(1)
          \/ \E s \in Stages, w \in WorkerIds : Worker(s, w)
          \/ WaitAll]_vars

----------------------------------------------------------------------------
(* Sends and closes of a link channel by the workers of one stage, checked  *)
(* under ChainSpec, where only the head is completed by its owner.          *)

\* C33: no worker sends on a link channel that has been closed: in a Buffer
\* or Transform stage no exiting worker has closed a link channel while
\* another worker of the stage holds a message it is forwarding or is about
\* to forward.
C33_NoSendOnClosedLink ==
    /\ ~(crash.kind = "send on closed channel" /\ crash.by = "worker")
    /\ \A s \in Stages : \A w \in Workers(s) :
          (cfg[s].kind # "action" /\ wk[s][w].pc \in {"exec", "fwd"})
              => \A i \in 1..Len(targets[s]) : ~Closed(targets[s][i].ch)

----------------------------------------------------------------------------
(* Post concurrent with Complete, checked under Spec. *)

\* C34: a Post that was entered before Complete() closed the input either
\* enqueues its message and returns true or returns false: whatever the
\* interleaving of its completed-check, its send and the close, it never sends
\* on the closed input channel.
C34_PostRacesComplete ==
    /\ (ret.op = "Post" /\ ret.ok) => ret.m \in accepted
    /\ (ret.op = "Post" /\ ~ret.ok) => ret.m \notin accepted
    /\ ~(crash.by = "Post" /\ ~poster.late)

----------------------------------------------------------------------------
(* Fan-in: two upstream stages linked to one channel that the caller made and
   reads from. *)

\* for v := range shared { received = append(received, v) }
Drain ==
    /\ crash = NoCrash
    /\ input[Shared] # <<>>
    /\ out' = Append(out, Head(input[Shared]))
    /\ input' = [input EXCEPT ![Shared] = Tail(@)]
    /\ UNCHANGED <<cfg, closeCount, targets, stopOnce, fault, completed, cancelled,
                   wg, wk, poster, nextMsg, crash, calls, fwd, ret, accepted, sent,
                   waits, call, aborted>>

\* Two one-worker Buffer or Transform stages, each linked to the shared channel.
FanSpec ==
    /\ \E k1, k2 \in {"buffer", "transform"}, b \in 0..1 :
          BuiltLinked([s \in Stages |->
                          StageCfg(IF s = 1 THEN k1 ELSE k2,
                                   WithBufferSize(DefaultBlockOptions, b), Succeeds)],
                      [s \in Stages |-> BlockLinkTo(<<>>, NewTarget(Shared), NilFilter)])
    /\ [][\/ \E s \in Stages : PostCheck(s)
          \/ PostSend
          \/ \E s \in Stages : Complete(s)
          \/ \E s \in Stages, w \in WorkerIds : Worker(s, w)
          \/ Drain]_vars

\* C35: with two upstream stages linked to the same channel, one of which
\* completes and exits while the other still emits, the shared channel is
\* closed at most once, no send of the other stage finds it closed, and what
\* the reader of the channel has received or can still receive is exactly what
\* the two stages sent.
C35_FanIn ==
    LET got == out \o input[Shared]
        Count(v) == Cardinality({i \in 1..Len(got) : got[i] = v})
    IN /\ closeCount[Shared] <= 1
       /\ ~(crash.by = "worker"
             /\ crash.kind \in {"send on closed channel", "close of closed channel"})
       /\ \A v \in Vals : Count(v) = sent[1][1][v] + sent[2][1][v]

----------------------------------------------------------------------------
(* Wait and the link channels, checked under CancelSpec. *)

\* C36: for a Buffer or Transform stage, a worker that has signalled the wait
\* group has closed the link channels before, so when Wait has returned for
\* the stage every one of its link channels is closed.
C36_LinksClosedBeforeWait ==
    \A s \in Stages :
        (/\ cfg[s].kind # "action"
         /\ \/ ret.op = "Wait" /\ ret.s = s
            \/ \E w \in Workers(s) : wk[s][w].pc = "exited")
            => \A i \in 1..Len(targets[s]) : Closed(targets[s][i].ch)

C36_Witness ==
    /\ ret.op = "Wait" /\ ret.s = 1
    /\ cfg[1].kind = "transform"
    /\ Len(targets[1]) > 0
    /\ AllExited(1)
    /\ Closed(targets[1][1].ch)
    /\ ~stopOnce[targets[1][1].ch]

====
